---- MODULE Spec2Model ----
(***************************************************************************)
(* The PCA teaching notebook                                               *)
(*   Machine_Learning_2/Reference Material/190053-Reactors-DS-Tr2-Sec1-2-  *)
(*   PCA.ipynb                                                             *)
(* as a state machine: the notebook variables are the state, every code    *)
(* cell is one step, executed top to bottom; the Box-Cox cell, the only    *)
(* cell with a loop, takes one step per loop iteration.  An exercise cell  *)
(* whose solution the notebook states runs that solution; an exercise cell *)
(* without a stated solution is empty.  A library error ends the run.      *)
(*                                                                         *)
(* The CSV file is not part of the repository.  Its header is modelled as  *)
(* the 54 columns the notebook's positional selections need; the names the *)
(* notebook mentions are kept (with "ug" for the micro sign), the others   *)
(* follow the USDA abbreviated file the notebook links to.  Numbers are    *)
(* integers; a text cell is an integer code; NaN is one reserved value.    *)
(* What the numerical library calls return (Box-Cox, StandardScaler) is    *)
(* kept as a tagged copy of the argument, and the PCA scores are any       *)
(* matrix of the right shape with centred, orthogonal columns.             *)
(***************************************************************************)
EXTENDS Integers, Sequences, FiniteSets

\* ------------------------------------------------------------------ bounds
MaxRows == 2
TopN == 1
PcaRows == 4

\* ------------------------------------------------------- program constants
DescFirst == 50
DescLast == 54
NutrTail == 5
NumKept == 5
NaN == -1000

\* The header of Data/USDA-nndb-combined.csv, positions 0..53.
Columns ==
  << "NDB_No", "FoodGroup", "Shrt_Desc",
     "Water_(g)", "Energ_Kcal", "Protein_(g)", "Lipid_Tot_(g)", "Ash_(g)",
     "Carbohydrt_(g)", "Fiber_TD_(g)", "Sugar_Tot_(g)", "Calcium_(mg)",
     "Iron_(mg)", "Magnesium_(mg)", "Phosphorus_(mg)", "Potassium_(mg)",
     "Sodium_(mg)", "Zinc_(mg)", "Copper_(mg)", "Manganese_(mg)",
     "Selenium_(ug)", "Vit_C_(mg)", "Thiamin_(mg)", "Riboflavin_(mg)",
     "Niacin_(mg)", "Panto_Acid_(mg)", "Vit_B6_(mg)", "Folate_Tot_(ug)",
     "Folic_Acid_(ug)", "Food_Folate_(ug)", "Folate_DFE_(ug)",
     "Choline_Tot_(mg)", "Vit_B12_(ug)", "Vit_A_IU", "Vit_A_RAE",
     "Retinol_(ug)", "Alpha_Carot_(ug)", "Beta_Carot_(ug)",
     "Beta_Crypt_(ug)", "Lycopene_(ug)", "Lut+Zea_(ug)", "Vit_E_(mg)",
     "Vit_D_ug", "Vit_D_IU", "Vit_K_(ug)", "FA_Sat_(g)", "FA_Mono_(g)",
     "FA_Poly_(g)", "Cholestrl_(mg)",
     "GmWt_1", "GmWt_Desc1", "GmWt_2", "GmWt_Desc2", "Refuse_Pct" >>

\* The correlation table of the notebook: (column, row) of each listed pair.
CorrTable ==
  << << "Folate_Tot_(ug)", "Folate_DFE_(ug)" >>,
     << "Folic_Acid_(ug)", "Folate_DFE_(ug)" >>,
     << "Folate_DFE_(ug)", "Folate_Tot_(ug)" >>,
     << "Vit_A_RAE", "Retinol_(ug)" >>,
     << "Retinol_(ug)", "Vit_A_RAE" >>,
     << "Vit_D_ug", "Vit_D_IU" >>,
     << "Vit_D_IU", "Vit_D_ug" >> >>

\* A drop list that names Folate_Tot where the notebook names Folate_DFE.
CorrelatedCols_FolateTot == << "Folate_Tot_(ug)", "Vit_A_RAE", "Vit_D_IU" >>

\* The columns the drop cells name.
CorrelatedCols == << "Folate_DFE_(ug)", "Vit_A_RAE", "Vit_D_IU" >>
DescColsInNutr == << "FoodGroup", "Shrt_Desc" >>
JoinedDropCols ==
  << "Shrt_Desc", "GmWt_Desc1", "GmWt_2", "GmWt_Desc2", "Refuse_Pct" >>
ComponentNames == << "c1", "c2", "c3", "c4", "c5" >>

\* --------------------------------------------------------------- helpers
Range(s) == { s[i] : i \in 1..Len(s) }
Min(a, b) == IF a < b THEN a ELSE b
Max(a, b) == IF a > b THEN a ELSE b

\* Python's range(a, b) as a list.
PyRange(a, b) == [i \in 1..Max(b - a, 0) |-> a + i - 1]

\* l[:k] for k >= 0 and l[:-k] for a negative stop.
Head0(l, stop) ==
  IF stop >= 0 THEN SubSeq(l, 1, Min(stop, Len(l)))
               ELSE SubSeq(l, 1, Max(Len(l) + stop, 0))

\* The positions (1-based), from i on, of the elements of s that are in keep.
RECURSIVE Kept(_, _, _)
Kept(s, keep, i) ==
  IF i > Len(s) THEN << >>
  ELSE IF s[i] \in keep THEN << i >> \o Kept(s, keep, i + 1)
       ELSE Kept(s, keep, i + 1)

Pick(s, pos) == [i \in 1..Len(pos) |-> s[pos[i]]]

\* ------------------------------------------------- DataFrames and arrays
Unbound == [kind |-> "unbound"]
IsBound(v) == v.kind # "unbound"

DataFrame(cols, idx, rows) ==
  [kind |-> "DataFrame", columns |-> cols, index |-> idx, data |-> rows]

NDArray(ncols, rows) == [kind |-> "ndarray", ncols |-> ncols, data |-> rows]

isnull(v) == v = NaN

RowHasNaN(f, i) == \E c \in Range(f.columns) : isnull(f.data[i][c])

\* df.dropna(how='all'): only a row whose every value is missing goes.
dropna_how_all(f) ==
  LET keep == Kept([i \in 1..Len(f.data) |-> i],
                   { i \in 1..Len(f.data) :
                       \E c \in Range(f.columns) : ~isnull(f.data[i][c]) }, 1)
  IN  DataFrame(f.columns, Pick(f.index, keep), Pick(f.data, keep))

\* df.dropna(): the rows without any missing value, labels kept.
dropna(f) ==
  LET keep == Kept([i \in 1..Len(f.data) |-> i],
                   { i \in 1..Len(f.data) : ~RowHasNaN(f, i) }, 1)
  IN  DataFrame(f.columns, Pick(f.index, keep), Pick(f.data, keep))

\* df.iloc[:, positions] with 0-based positions.
iloc_cols(f, positions) ==
  LET cols == [i \in 1..Len(positions) |-> f.columns[positions[i] + 1]]
  IN  DataFrame(cols, f.index,
                [r \in 1..Len(f.data) |-> [c \in Range(cols) |-> f.data[r][c]]])

\* df.iloc[:, :stop].
iloc_head(f, stop) ==
  iloc_cols(f, PyRange(0, Len(Head0(f.columns, stop))))

\* df.drop(names, axis=1).
drop_columns(f, names) ==
  LET cols == Pick(f.columns,
                   Kept(f.columns, Range(f.columns) \ Range(names), 1))
  IN  DataFrame(cols, f.index,
                [r \in 1..Len(f.data) |-> [c \in Range(cols) |-> f.data[r][c]]])

\* df.set_index(name): the column becomes the index and leaves the columns.
set_index(f, name) ==
  LET g == drop_columns(f, << name >>)
  IN  DataFrame(g.columns, [r \in 1..Len(f.data) |-> f.data[r][name]], g.data)

\* df + 1, element-wise; NaN + 1 is NaN.
add_scalar(f, k) ==
  DataFrame(f.columns, f.index,
            [r \in 1..Len(f.data) |->
               [c \in Range(f.columns) |->
                  IF isnull(f.data[r][c]) THEN NaN ELSE f.data[r][c] + k]])


\* What the library calls return, kept by argument.
boxcox_value(x) == [boxcox |-> x]
scaled_value(y) == [scaled |-> y]
loading(k, col) == [component |-> k, feature |-> col]

\* ------------------------------------------------------------ the notebook
\* The cells with the cumulative plot moved below the pca_df cell.
Cells_PlotAfterPcaDf ==
  << "imports", "read_csv", "df_info", "ex_shape", "ex_dropna", "df_shape",
     "desc_df", "nutr_df", "drop_desc", "ex_set_index", "nutr_head",
     "drop_corr", "hist", "shift", "boxcox", "hist_TF", "scale",
     "print_mean", "ex_std", "pca", "scree", "print_var5", "print_cumsum",
     "pca_df", "cum_plot", "join", "corr", "vects", "c1", "c2",
     "ex_c3", "ex_c4", "ex_c5", "top_c1", "top_c2",
     "ex_top3", "ex_top4", "ex_top5", "foodgroup_counts" >>

\* The code cells, top to bottom.
Cells ==
  << "imports", "read_csv", "df_info", "ex_shape", "ex_dropna", "df_shape",
     "desc_df", "nutr_df", "drop_desc", "ex_set_index", "nutr_head",
     "drop_corr", "hist", "shift", "boxcox", "hist_TF", "scale",
     "print_mean", "ex_std", "pca", "scree", "print_var5", "print_cumsum",
     "cum_plot", "pca_df", "join", "corr", "vects", "c1", "c2",
     "ex_c3", "ex_c4", "ex_c5", "top_c1", "top_c2",
     "ex_top3", "ex_top4", "ex_top5", "foodgroup_counts" >>

\* Cells that only render one of the tables or numbers.
DisplayCells ==
  { "df_info", "df_shape", "nutr_head", "print_mean", "ex_std",
    "print_var5", "print_cumsum" }
\* Exercise cells for which the notebook states no solution: empty.
EmptyCells ==
  { "ex_shape", "ex_c3", "ex_c4", "ex_c5", "ex_top3", "ex_top4", "ex_top5" }
HistCells == { "hist", "hist_TF" }
PlotCells == { "scree", "cum_plot" }

VARIABLES
  csv,         \* the file Data/USDA-nndb-combined.csv
  pc,          \* the position in Cells of the cell to execute next
  col,         \* inside the Box-Cox loop: the position of the next column; else 0
  error,       \* "none", or the exception that ended the run
  executed,    \* the cells that have completed, in order
  df, desc_df, nutr_df, nutr_df_TF, fit, pca, pca_df, vects, c1, c2,
  out          \* what the last cell displayed

vars == << csv, pc, col, error, executed, df, desc_df, nutr_df, nutr_df_TF,
           fit, pca, pca_df, vects, c1, c2, out >>

nbvars == << df, desc_df, nutr_df, nutr_df_TF, fit, pca, pca_df, vects, c1, c2 >>

\* ------------------------------------------------------------- the input
IdSet == 0..MaxRows
FoodGroups == { 1, 2 }
ScoreSet == { -1, 0, 1 }

NutrientCols == Range(SubSeq(Columns, 4, 49))

\* One line of the file: the key, the food group and one nutrient vary.
CsvRow(id, group, lipid) ==
  [c \in Range(Columns) |->
     CASE c = "NDB_No" -> id
       [] c = "FoodGroup" -> group
       [] c = "Lipid_Tot_(g)" -> lipid
       [] OTHER -> 0]

\* The (FoodGroup, Lipid_Tot_(g)) of a line: a zero, a positive or a
\* negative amount, a missing food group, a missing amount.
RowKinds ==
  { << 1, 0 >>, << 2, 0 >>, << 2, 1 >>, << 1, -1 >>, << NaN, 0 >>, << 1, NaN >> }

CsvRows == { CsvRow(i, k[1], k[2]) : i \in IdSet, k \in RowKinds }

\* The files: absent, unparsable, or up to MaxRows lines sorted by a unique key.
CsvFiles ==
  { [status |-> s, rows |-> << >>] : s \in { "missing", "malformed" } }
  \cup
  { [status |-> "ok", rows |-> rows] :
      rows \in UNION { [1..n -> CsvRows] : n \in 0..MaxRows } }

SortedByKey(rows) ==
  \A i \in 1..Len(rows) - 1 : rows[i]["NDB_No"] < rows[i + 1]["NDB_No"]

Init ==
  /\ csv \in { f \in CsvFiles : SortedByKey(f.rows) }
  /\ pc = 1
  /\ col = 0
  /\ error = "none"
  /\ executed = << >>
  /\ df = Unbound /\ desc_df = Unbound /\ nutr_df = Unbound
  /\ nutr_df_TF = Unbound /\ fit = Unbound /\ pca = Unbound
  /\ pca_df = Unbound /\ vects = Unbound /\ c1 = Unbound /\ c2 = Unbound
  /\ out = [kind |-> "none"]

\* ------------------------------------------------------- cell execution
Cell == IF pc <= Len(Cells) THEN Cells[pc] ELSE "end"
\* A cell that may begin again while its loop is still running.
At_Reentrant(name) == error = "none" /\ Cell = name

At(name) == error = "none" /\ col = 0 /\ Cell = name

\* The cell completes: the kernel moves to the next cell.
Complete ==
  /\ pc' = pc + 1
  /\ executed' = Append(executed, Cell)
  /\ error' = error
  /\ UNCHANGED csv

\* The cell raises: the run ends at this cell.
Raise(exc) ==
  /\ error' = exc
  /\ UNCHANGED << csv, pc, executed >>

Imports ==
  /\ At("imports")
  /\ Complete
  /\ UNCHANGED << col, nbvars, out >>

\* pd.read_csv: a frame with the default RangeIndex, or the library's error.
read_csv(file) ==
  DataFrame(Columns, PyRange(0, Len(file.rows)), file.rows)

ReadCsv ==
  /\ At("read_csv")
  /\ IF csv.status = "ok"
       THEN /\ df' = read_csv(csv)
            /\ Complete
       ELSE /\ Raise(IF csv.status = "missing" THEN "FileNotFoundError"
                                                ELSE "ParserError")
            /\ df' = df
  /\ UNCHANGED << col, desc_df, nutr_df, nutr_df_TF, fit, pca, pca_df,
                  vects, c1, c2, out >>

Display ==
  /\ error = "none" /\ col = 0 /\ Cell \in DisplayCells
  /\ out' = [kind |-> "display", cell |-> Cell]
  /\ Complete
  /\ UNCHANGED << col, nbvars >>

Empty ==
  /\ error = "none" /\ col = 0 /\ Cell \in EmptyCells
  /\ Complete
  /\ UNCHANGED << col, nbvars, out >>

\* Exercise solution: df = df.dropna().
Dropna ==
  /\ At("ex_dropna")
  /\ df' = dropna(df)
  /\ Complete
  /\ UNCHANGED << col, desc_df, nutr_df, nutr_df_TF, fit, pca, pca_df,
                  vects, c1, c2, out >>

\* [0, 1, 2] + [i for i in range(50, 54)]
DescPositions == << 0, 1, 2 >> \o PyRange(DescFirst, DescLast)

SplitDesc ==
  /\ At("desc_df")
  /\ desc_df' = set_index(iloc_cols(df, DescPositions), "NDB_No")
  /\ out' = [kind |-> "display", cell |-> Cell]
  /\ Complete
  /\ UNCHANGED << col, df, nutr_df, nutr_df_TF, fit, pca, pca_df,
                  vects, c1, c2 >>

SplitNutr ==
  /\ At("nutr_df")
  /\ nutr_df' = iloc_head(df, 0 - NutrTail)
  /\ out' = [kind |-> "display", cell |-> Cell]
  /\ Complete
  /\ UNCHANGED << col, df, desc_df, nutr_df_TF, fit, pca, pca_df,
                  vects, c1, c2 >>

DropDesc ==
  /\ At("drop_desc")
  /\ nutr_df' = drop_columns(nutr_df, DescColsInNutr)
  /\ Complete
  /\ UNCHANGED << col, df, desc_df, nutr_df_TF, fit, pca, pca_df,
                  vects, c1, c2, out >>

\* The set_index exercise cell left empty.
SetIndex_LeftBlank ==
  /\ error = "none" /\ col = 0 /\ Cell = "ex_set_index"
  /\ Complete
  /\ UNCHANGED << col, nbvars, out >>

\* Exercise solution: nutr_df.set_index('NDB_No', inplace=True).
SetIndex ==
  /\ At("ex_set_index")
  /\ nutr_df' = set_index(nutr_df, "NDB_No")
  /\ Complete
  /\ UNCHANGED << col, df, desc_df, nutr_df_TF, fit, pca, pca_df,
                  vects, c1, c2, out >>

DropCorrelated ==
  /\ At("drop_corr")
  /\ nutr_df' = drop_columns(nutr_df, CorrelatedCols)
  /\ out' = [kind |-> "display", cell |-> Cell]
  /\ Complete
  /\ UNCHANGED << col, df, desc_df, nutr_df_TF, fit, pca, pca_df,
                  vects, c1, c2 >>

Hist ==
  /\ error = "none" /\ col = 0 /\ Cell \in HistCells
  /\ out' = [kind |-> "figure", cell |-> Cell]
  /\ Complete
  /\ UNCHANGED << col, nbvars >>

\* nutr_df + 1 evaluated and displayed, but not assigned.
Shift_NotAssigned ==
  /\ error = "none" /\ col = 0 /\ Cell = "shift"
  /\ out' = [kind |-> "display", cell |-> Cell]
  /\ Complete
  /\ UNCHANGED << col, nbvars >>

Shift ==
  /\ At("shift")
  /\ nutr_df' = add_scalar(nutr_df, 1)
  /\ Complete
  /\ UNCHANGED << col, df, desc_df, nutr_df_TF, fit, pca, pca_df,
                  vects, c1, c2, out >>


\* ------------------------------------------------------ the Box-Cox cell
\* from scipy.stats import boxcox; nutr_df_TF = pd.DataFrame(index=...)
BoxcoxBegin ==
  /\ At("boxcox")
  /\ nutr_df_TF' = DataFrame(<< >>, nutr_df.index,
                             [r \in 1..Len(nutr_df.data) |-> << >>])
  /\ col' = 1
  /\ UNCHANGED << csv, pc, error, executed, df, desc_df, nutr_df, fit, pca,
                  pca_df, vects, c1, c2, out >>

\* The values of one column, top to bottom: nutr_df.loc[:, name].
column_values(f, name) == [r \in 1..Len(f.data) |-> f.data[r][name]]

\* A boxcox that accepts values that are not positive.
boxcox_error_silent(x) == IF Len(x) = 0 THEN "IndexError" ELSE "none"

\* scipy.stats.boxcox(x): what it raises, or "none".  An empty array is
\* returned as it is, and the cell's [0] on it raises.
boxcox_error(x) ==
  IF Len(x) = 0 THEN "IndexError"
  ELSE IF \E i \in 1..Len(x) : ~isnull(x[i]) /\ x[i] <= 0 THEN "ValueError"
  ELSE "none"

\* boxcox(x)[0]: the transformed values; a NaN stays a NaN.
boxcox(x) ==
  [i \in 1..Len(x) |-> IF isnull(x[i]) THEN [boxcox |-> NaN]
                                        ELSE boxcox_value(x[i])]

\* frame.insert(0, name, values): a new first column.
assign_column_first(f, name, values) ==
  DataFrame(<< name >> \o f.columns, f.index,
            [r \in 1..Len(f.data) |->
               [c \in Range(f.columns) \cup { name } |->
                  IF c = name THEN values[r] ELSE f.data[r][c]]])

\* frame[name] = values: a new last column.
assign_column(f, name, values) ==
  DataFrame(Append(f.columns, name), f.index,
            [r \in 1..Len(f.data) |->
               [c \in Range(f.columns) \cup { name } |->
                  IF c = name THEN values[r] ELSE f.data[r][c]]])

TF(name) == << name, "_TF" >>

\* One pass of: for col in nutr_df.columns.values: nutr_df_TF[...] = ...
BoxcoxIter ==
  /\ error = "none" /\ Cell = "boxcox"
  /\ col >= 1 /\ col <= Len(nutr_df.columns)
  /\ LET name == nutr_df.columns[col]
         x == column_values(nutr_df, name)
     IN  IF boxcox_error(x) = "none"
           THEN /\ nutr_df_TF' = assign_column(nutr_df_TF, TF(name), boxcox(x))
                /\ IF col = Len(nutr_df.columns)
                     THEN /\ col' = 0
                          /\ Complete
                     ELSE /\ col' = col + 1
                          /\ UNCHANGED << csv, pc, error, executed >>
           ELSE /\ Raise(boxcox_error(x))
                /\ UNCHANGED << col, nutr_df_TF >>
  /\ UNCHANGED << df, desc_df, nutr_df, fit, pca, pca_df, vects, c1, c2, out >>

\* StandardScaler().fit_transform(frame): an array, the labels are gone.
fit_transform_scaler(f) ==
  NDArray(Len(f.columns),
          [r \in 1..Len(f.data) |->
             [j \in 1..Len(f.columns) |-> scaled_value(f.data[r][f.columns[j]])]])

Scale ==
  /\ At("scale")
  /\ nutr_df_TF' = fit_transform_scaler(nutr_df_TF)
  /\ Complete
  /\ UNCHANGED << col, df, desc_df, nutr_df, fit, pca, pca_df, vects,
                  c1, c2, out >>

\* ---------------------------------------------------------------- PCA
RECURSIVE SumTo(_, _)
SumTo(v, n) == IF n = 0 THEN 0 ELSE v[n] + SumTo(v, n - 1)

\* The score columns PCA can return for n samples: each is centred, any two
\* are orthogonal, and they come in the order of decreasing variance.
CentredVectors(n) == { v \in [1..n -> ScoreSet] : SumTo(v, n) = 0 }
ZeroVector(n) == [i \in 1..n |-> 0]
Dot(v, w, n) == SumTo([i \in 1..n |-> v[i] * w[i]], n)

\* PCA() keeps min(n_samples, n_features) components; centred data of n
\* samples have rank below n, so the scores from component n on are zero.
\* The first k score columns, built one column at a time.
RECURSIVE ScoreFrames(_, _)
ScoreFrames(n, k) ==
  IF k = 0 THEN { << >> }
  ELSE UNION {
         { Append(s, v) :
             v \in { w \in CentredVectors(n) :
                       /\ k >= n => w = ZeroVector(n)
                       /\ k > 1 => Dot(s[k - 1], s[k - 1], n) >= Dot(w, w, n)
                       /\ \A j \in 1..k - 1 : Dot(s[j], w, n) = 0 } } :
         s \in ScoreFrames(n, k - 1) }

ScoreColumns(n, ncomp) == ScoreFrames(n, ncomp)

PCAFit(x) ==
  LET ncomp == Min(Len(x.data), x.ncols)
  IN  [kind |-> "PCA", n_features |-> x.ncols, n_components |-> ncomp,
       components |-> [k \in 1..ncomp |-> [j \in 1..x.ncols |-> loading(k, j)]]]

Decompose ==
  /\ At("pca")
  /\ fit' = PCAFit(nutr_df_TF)
  /\ \E s \in ScoreColumns(Len(nutr_df_TF.data), fit'.n_components) :
       pca' = NDArray(fit'.n_components,
                      [r \in 1..Len(nutr_df_TF.data) |->
                         [k \in 1..fit'.n_components |-> s[k][r]]])
  /\ Complete
  /\ UNCHANGED << col, df, desc_df, nutr_df, nutr_df_TF, pca_df, vects,
                  c1, c2, out >>

Plot ==
  /\ error = "none" /\ col = 0 /\ Cell \in PlotCells
  /\ out' = [kind |-> "figure", cell |-> Cell]
  /\ Complete
  /\ UNCHANGED << col, nbvars >>

\* a[:, :k]
array_head(a, k) ==
  NDArray(Min(a.ncols, k), [r \in 1..Len(a.data) |-> Head0(a.data[r], k)])

\* The default column labels 0, 1, 2, ... of a frame built from an array.
RangeLabels == << "0", "1", "2", "3", "4" >>

\* pd.DataFrame(array, index=labels)
frame_of_array(a, labels) ==
  LET cols == SubSeq(RangeLabels, 1, a.ncols)
  IN  DataFrame(cols, labels,
                [r \in 1..Len(a.data) |->
                   [c \in Range(cols) |->
                      a.data[r][CHOOSE j \in 1..a.ncols : cols[j] = c]]])

MakePcaDf ==
  /\ At("pca_df")
  /\ IF Len(df.index) = Len(pca.data)
       THEN /\ pca_df' = frame_of_array(array_head(pca, NumKept), df.index)
            /\ out' = [kind |-> "display", cell |-> Cell]
            /\ Complete
       ELSE /\ Raise("ValueError")
            /\ UNCHANGED << pca_df, out >>
  /\ UNCHANGED << col, df, desc_df, nutr_df, nutr_df_TF, fit, pca, vects,
                  c1, c2 >>

\* left.join(right, how='inner'): only the left rows whose label the right
\* frame has.
join_inner(left, right) ==
  LET cols == left.columns \o right.columns
      keep == Kept(left.index, Range(right.index), 1)
      match(r) == { j \in 1..Len(right.index) : right.index[j] = left.index[r] }
  IN  DataFrame(cols, Pick(left.index, keep),
                [i \in 1..Len(keep) |->
                   [c \in Range(cols) |->
                      IF c \in Range(left.columns) THEN left.data[keep[i]][c]
                      ELSE right.data[CHOOSE j \in match(keep[i]) : TRUE][c]]])

\* left.join(right): every left row, with the right row of the same label,
\* or NaN where the right frame has no such label.
join(left, right) ==
  LET cols == left.columns \o right.columns
      match(r) == { j \in 1..Len(right.index) : right.index[j] = left.index[r] }
  IN  DataFrame(cols, left.index,
                [r \in 1..Len(left.data) |->
                   [c \in Range(cols) |->
                      IF c \in Range(left.columns) THEN left.data[r][c]
                      ELSE IF match(r) = {} THEN NaN
                      ELSE right.data[CHOOSE j \in match(r) : TRUE][c]]])

\* df.rename(columns={0:'c1', ...})
rename_columns(f, old, new) ==
  LET nm(c) == IF \E i \in 1..Len(old) : old[i] = c
                 THEN new[CHOOSE i \in 1..Len(old) : old[i] = c] ELSE c
      back(c) == CHOOSE d \in Range(f.columns) : nm(d) = c
      cols == [i \in 1..Len(f.columns) |-> nm(f.columns[i])]
  IN  DataFrame(cols, f.index,
                [r \in 1..Len(f.data) |-> [c \in Range(cols) |-> f.data[r][back(c)]]])

JoinDesc ==
  /\ At("join")
  /\ pca_df' = rename_columns(drop_columns(join(pca_df, desc_df), JoinedDropCols),
                              RangeLabels, ComponentNames)
  /\ out' = [kind |-> "display", cell |-> Cell]
  /\ Complete
  /\ UNCHANGED << col, df, desc_df, nutr_df, nutr_df_TF, fit, pca, vects,
                  c1, c2 >>

\* The columns the file fills with text; corr() leaves them out.
TextCols == { "FoodGroup", "Shrt_Desc", "GmWt_Desc1", "GmWt_Desc2" }

numeric_columns(f) ==
  Pick(f.columns, Kept(f.columns, Range(f.columns) \ TextCols, 1))

\* Pearson's r of two columns over the rows where both have a value, as the
\* exact number num / sqrt(den2); NaN with fewer than two such rows or with
\* a column that is constant over them.
pearson(x, y) ==
  LET p == Kept([r \in 1..Len(x) |-> r],
                { r \in 1..Len(x) : ~isnull(x[r]) /\ ~isnull(y[r]) }, 1)
      a == Pick(x, p)
      b == Pick(y, p)
      n == Len(p)
      num == n * Dot(a, b, n) - SumTo(a, n) * SumTo(b, n)
      dx == n * Dot(a, a, n) - SumTo(a, n) * SumTo(a, n)
      dy == n * Dot(b, b, n) - SumTo(b, n) * SumTo(b, n)
  IN  IF n < 2 \/ dx = 0 \/ dy = 0 THEN [exact |-> NaN]
      ELSE [num |-> num, den2 |-> dx * dy]

\* frame.corr(): the table of r over the numeric columns, labelled by them.
corr(f) ==
  LET cols == numeric_columns(f)
  IN  DataFrame(cols, cols,
                [j \in 1..Len(cols) |->
                   [c \in Range(cols) |->
                      pearson(column_values(f, cols[j]), column_values(f, c))]])

\* np.round(v, decimals): NaN, 0, 1 and -1 are returned as they are; any
\* other value is kept by argument.
round_value(v, decimals) ==
  IF "exact" \in DOMAIN v THEN v
  ELSE IF v.num = 0 THEN [exact |-> 0]
  ELSE IF v.num * v.num = v.den2
         THEN [exact |-> IF v.num > 0 THEN 1 ELSE 0 - 1]
  ELSE [rounded |-> v, decimals |-> decimals]

\* np.round(frame, decimals), element-wise.
np_round(f, decimals) ==
  DataFrame(f.columns, f.index,
            [r \in 1..Len(f.data) |->
               [c \in Range(f.columns) |-> round_value(f.data[r][c], decimals)]])

Corr ==
  /\ At("corr")
  /\ out' = [kind |-> "display", cell |-> Cell,
             value |-> np_round(corr(pca_df), 5)]
  /\ Complete
  /\ UNCHANGED << col, nbvars >>

Vects ==
  /\ At("vects")
  /\ vects' = [kind |-> "ndarray", ncols |-> fit.n_features,
               data |-> Head0(fit.components, NumKept)]
  /\ Complete
  /\ UNCHANGED << col, df, desc_df, nutr_df, nutr_df_TF, fit, pca, pca_df,
                  c1, c2, out >>

\* pd.Series(values, index=labels)
Series(values, labels) == [kind |-> "Series", index |-> labels, values |-> values]

\* pd.Series(vects[k], index=nutr_df.columns), or what it raises.
loadings_error(k) ==
  IF k + 1 > Len(vects.data) THEN "IndexError"
  ELSE IF Len(vects.data[k + 1]) # Len(nutr_df.columns) THEN "ValueError"
  ELSE "none"

LoadingsC1 ==
  /\ At("c1")
  /\ IF loadings_error(0) = "none"
       THEN /\ c1' = Series(vects.data[1], nutr_df.columns)
            /\ out' = [kind |-> "display", cell |-> Cell]
            /\ Complete
       ELSE /\ Raise(loadings_error(0))
            /\ UNCHANGED << c1, out >>
  /\ UNCHANGED << col, df, desc_df, nutr_df, nutr_df_TF, fit, pca, pca_df,
                  vects, c2 >>

LoadingsC2 ==
  /\ At("c2")
  /\ IF loadings_error(1) = "none"
       THEN /\ c2' = Series(vects.data[2], nutr_df.columns)
            /\ out' = [kind |-> "display", cell |-> Cell]
            /\ Complete
       ELSE /\ Raise(loadings_error(1))
            /\ UNCHANGED << c2, out >>
  /\ UNCHANGED << col, df, desc_df, nutr_df, nutr_df_TF, fit, pca, pca_df,
                  vects, c1 >>

\* ------------------------------------------------- the food-group counts
RowOrders(n) ==
  { p \in [1..n -> 1..n] : \A i, j \in 1..n : p[i] = p[j] => i = j }

\* The row orders sort_values(by=name) can give: ascending, NaN last.
Before(a, b) == isnull(b) \/ (~isnull(a) /\ a <= b)
sort_values(f, name) ==
  { p \in RowOrders(Len(f.data)) :
      \A i \in 1..Len(f.data) - 1 :
         Before(f.data[p[i]][name], f.data[p[i + 1]][name]) }

\* series.value_counts(): the values present, each with its count; no NaN.
value_counts(values) ==
  LET present == { values[i] : i \in 1..Len(values) } \ { NaN }
  IN  [v \in present |-> Cardinality({ i \in 1..Len(values) : values[i] = v })]

\* pca_df.sort_values(by=name)['FoodGroup'][:TopN].value_counts()
TopCounts(name) ==
  IF name \in Range(pca_df.columns)
    THEN /\ \E p \in sort_values(pca_df, name) :
              LET rows == Head0(p, TopN)
              IN  out' = [kind |-> "value_counts", by |-> name, rows |-> rows,
                          counts |-> value_counts(
                             [i \in 1..Len(rows) |-> pca_df.data[rows[i]]["FoodGroup"]])]
         /\ Complete
    ELSE /\ Raise("KeyError")
         /\ out' = out

TopC1 ==
  /\ At("top_c1")
  /\ TopCounts("c1")
  /\ UNCHANGED << col, nbvars >>

TopC2 ==
  /\ At("top_c2")
  /\ TopCounts("c2")
  /\ UNCHANGED << col, nbvars >>

FoodGroupCounts ==
  /\ At("foodgroup_counts")
  /\ out' = [kind |-> "value_counts", by |-> "df", rows |-> << >>,
             counts |-> value_counts(column_values(df, "FoodGroup"))]
  /\ Complete
  /\ UNCHANGED << col, nbvars >>

\* ----------------------------------------------------------------- the run
Next ==
  \/ Imports \/ ReadCsv \/ Display \/ Empty \/ Dropna
  \/ SplitDesc \/ SplitNutr \/ DropDesc \/ SetIndex \/ DropCorrelated
  \/ Hist \/ Shift \/ BoxcoxBegin \/ BoxcoxIter \/ Scale \/ Decompose
  \/ Plot \/ MakePcaDf \/ JoinDesc \/ Corr \/ Vects
  \/ LoadingsC1 \/ LoadingsC2 \/ TopC1 \/ TopC2 \/ FoodGroupCounts

Spec == Init /\ [][Next]_vars

\* Runs on files without a missing or negative value, of up to PcaRows
\* lines: the files on which the run reaches the decomposition with more
\* than one component of positive variance.
CleanFile(n) ==
  [status |-> "ok", rows |-> [i \in 1..n |-> CsvRow(i, 1 + (i % 2), i % 2)]]

InitPCA ==
  /\ csv \in { CleanFile(n) : n \in 0..PcaRows }
  /\ pc = 1
  /\ col = 0
  /\ error = "none"
  /\ executed = << >>
  /\ df = Unbound /\ desc_df = Unbound /\ nutr_df = Unbound
  /\ nutr_df_TF = Unbound /\ fit = Unbound /\ pca = Unbound
  /\ pca_df = Unbound /\ vects = Unbound /\ c1 = Unbound /\ c2 = Unbound
  /\ out = [kind |-> "none"]

SpecPCA == InitPCA /\ [][Next]_vars

\* The kernel does not stop inside a cell: the Box-Cox cell it has reached
\* begins, and the loop it has begun takes its next pass.
FairSpec == Spec /\ WF_vars(BoxcoxBegin) /\ WF_vars(BoxcoxIter)

Finished == error = "none" /\ pc > Len(Cells)
Aborted == error # "none"
TypeOK ==
  /\ pc \in 1..Len(Cells) + 1
  /\ col \in 0..Len(Columns)
  /\ error \in { "none", "FileNotFoundError", "ParserError", "ValueError",
                 "IndexError", "KeyError" }


Done(cell) == cell \in Range(executed)
Halted == Finished \/ Aborted

\* ------------------------------------------------------------------- C1
\* The pipeline step a cell belongs to; "other" for a cell that only renders
\* a table, a number or a histogram, imports, splits or sets an index.
Pipeline ==
  << "read", "drop rows", "drop columns", "transform", "scale", "decompose",
     "plot", "inspect" >>

StepOf(cell) ==
  CASE cell = "read_csv" -> "read"
    [] cell = "ex_dropna" -> "drop rows"
    [] cell \in { "drop_desc", "drop_corr" } -> "drop columns"
    [] cell \in { "shift", "boxcox" } -> "transform"
    [] cell = "scale" -> "scale"
    [] cell = "pca" -> "decompose"
    [] cell \in PlotCells -> "plot"
    [] cell \in { "pca_df", "join", "corr", "vects", "c1", "c2", "top_c1",
                  "top_c2", "foodgroup_counts" } -> "inspect"
    [] OTHER -> "other"

StepIndex(step) == CHOOSE i \in 1..Len(Pipeline) : Pipeline[i] = step

\* The steps a sequence of cells performs: one entry per unbroken group of
\* cells of the same step.
RECURSIVE StepsOf(_)
StepsOf(cells) ==
  IF cells = << >> THEN << >>
  ELSE LET before == StepsOf(SubSeq(cells, 1, Len(cells) - 1))
           step == StepOf(cells[Len(cells)])
       IN  IF step = "other" THEN before
           ELSE IF before # << >> /\ before[Len(before)] = step THEN before
           ELSE Append(before, step)

IsPrefix(s, t) == Len(s) <= Len(t) /\ s = SubSeq(t, 1, Len(s))

C2_NoNaNAtBoxcox ==
  /\ (Cell = "boxcox" \/ Done("boxcox")) =>
        \A r \in 1..Len(nutr_df.data) : ~RowHasNaN(nutr_df, r)
  /\ Done("ex_dropna") =>
        /\ \A i \in 1..Len(csv.rows) :
              (i - 1 \in Range(df.index))
              <=> (\A c \in Range(Columns) : csv.rows[i][c] # NaN)
        /\ \A k \in 1..Len(df.index) : df.data[k] = csv.rows[df.index[k] + 1]
        /\ \A k \in 1..Len(df.index) - 1 : df.index[k] < df.index[k + 1]

C2_Witness ==
  /\ Cell = "boxcox" /\ col > 1
  /\ Len(df.data) >= 1
  /\ \E i \in 1..Len(csv.rows) : \E c \in Range(Columns) : csv.rows[i][c] = NaN

\* ------------------------------------------------------------------- C3
\* The FoodGroup the file gives the food with key id.
FoodGroupOf(id) ==
  LET i == CHOOSE i \in 1..Len(csv.rows) : csv.rows[i]["NDB_No"] = id
  IN  csv.rows[i]["FoodGroup"]

\* C3: once desc_df is joined, every row of pca_df carries the FoodGroup of
\* the food whose nutrient row gave the row's scores (row r of nutr_df).
C3_FoodGroupOfSameFood ==
  Done("join") =>
     \A r \in 1..Len(pca_df.data) :
        pca_df.data[r]["FoodGroup"] = FoodGroupOf(nutr_df.index[r])

\* ------------------------------------------------------------------- C4
\* C4: the rows the counts of component cK are taken over are the TopN rows
\* of highest cK: no row left out has a higher cK than a row taken.
C4_TopRowsAreHighest ==
  (out.kind = "value_counts" /\ out.by \in Range(ComponentNames)) =>
     /\ Len(out.rows) = Min(TopN, Len(pca_df.data))
     /\ \A i \in 1..Len(out.rows) :
           \A u \in (1..Len(pca_df.data)) \ Range(out.rows) :
              pca_df.data[u][out.by] <= pca_df.data[out.rows[i]][out.by]


\* ------------------------------------------------------------------- C5
NonNegativeNutrients ==
  \A r \in 1..Len(df.data) : \A c \in Range(nutr_df.columns) : df.data[r][c] >= 0

\* C5: no column is transformed before the +1 cell has completed; from then
\* on every cell of every column of nutr_df is the cleaned table's value
\* plus one, once; and if every nutrient value of the cleaned table is >= 0,
\* every value of nutr_df while the Box-Cox cell runs, and every value that
\* was passed to boxcox, is > 0.
C5_BoxcoxInputPositive ==
  /\ IsBound(nutr_df_TF) => Done("shift")
  /\ Cell = "boxcox" => Done("shift")
  /\ Done("shift") =>
        /\ Len(nutr_df.data) = Len(df.data)
        /\ \A r \in 1..Len(nutr_df.data) : \A c \in Range(nutr_df.columns) :
              nutr_df.data[r][c] = df.data[r][c] + 1
  /\ (Cell = "boxcox" /\ NonNegativeNutrients) =>
        \A r \in 1..Len(nutr_df.data) : \A c \in Range(nutr_df.columns) :
           nutr_df.data[r][c] > 0
  /\ (nutr_df_TF.kind = "DataFrame" /\ NonNegativeNutrients) =>
        \A r \in 1..Len(nutr_df_TF.data) : \A c \in Range(nutr_df_TF.columns) :
           nutr_df_TF.data[r][c].boxcox > 0

C5_Witness ==
  /\ Cell = "boxcox" /\ col >= 1 /\ NonNegativeNutrients
  /\ Len(nutr_df_TF.data) = MaxRows
  /\ TF("Lipid_Tot_(g)") \in Range(nutr_df_TF.columns)
  /\ \E r \in 1..Len(df.data) : df.data[r]["Lipid_Tot_(g)"] = 0

\* ------------------------------------------------------------------- C6
PairRemains(pair, cols) == pair[1] \in Range(cols) /\ pair[2] \in Range(cols)

\* C6: each of the seven listed pairs has a member among the three dropped
\* columns; the drop cell removes these three columns of nutr_df and no
\* other; and afterwards no listed pair has both members in nutr_df.
C6_DropEliminatesCorrelations ==
  /\ Len(CorrTable) = 7
  /\ \A i \in 1..Len(CorrTable) :
        CorrTable[i][1] \in Range(CorrelatedCols)
        \/ CorrTable[i][2] \in Range(CorrelatedCols)
  /\ Cell = "drop_corr" => Range(nutr_df.columns) = NutrientCols
  /\ Done("drop_corr") =>
        /\ Range(nutr_df.columns) = NutrientCols \ Range(CorrelatedCols)
        /\ Len(nutr_df.columns) = Cardinality(NutrientCols) - 3
        /\ \A i \in 1..Len(CorrTable) : ~PairRemains(CorrTable[i], nutr_df.columns)

C6_Witness ==
  /\ Done("drop_corr")
  /\ Len(nutr_df.data) >= 1
  /\ "Folate_Tot_(ug)" \in Range(nutr_df.columns)
  /\ "Folate_DFE_(ug)" \notin Range(nutr_df.columns)

\* ------------------------------------------------------------------- C7
\* C7: once desc_df and nutr_df are made, every column of df other than the
\* key NDB_No is a column of exactly one of them, df's last column being at
\* position 53.
C7_EveryColumnInOneFrame ==
  Done("drop_desc") =>
     /\ Len(df.columns) = 54
     /\ \A c \in Range(df.columns) \ { "NDB_No" } :
           (c \in Range(desc_df.columns)) # (c \in Range(nutr_df.columns))

\* ------------------------------------------------------------------- C8
\* C8: from the +1 cell on, NDB_No is the index of nutr_df, unshifted, and
\* not one of its columns; no transformed column comes from it; and the
\* scaled array and the PCA have one feature per nutrient column of nutr_df.
C8_KeyIsIndexNotFeature ==
  (Cell \in { "shift", "boxcox", "scale", "pca" } \/ Done("pca")) =>
     /\ "NDB_No" \notin Range(nutr_df.columns)
     /\ Range(nutr_df.columns) \subseteq NutrientCols
     /\ nutr_df.index = [r \in 1..Len(df.data) |-> df.data[r]["NDB_No"]]
     /\ nutr_df_TF.kind = "DataFrame" =>
           /\ TF("NDB_No") \notin Range(nutr_df_TF.columns)
           /\ nutr_df_TF.index = nutr_df.index
     /\ nutr_df_TF.kind = "ndarray" => nutr_df_TF.ncols = Len(nutr_df.columns)
     /\ IsBound(fit) => fit.n_features = Len(nutr_df.columns)

C8_Witness ==
  /\ IsBound(fit) /\ fit.n_features = 43
  /\ Len(nutr_df.index) = MaxRows /\ nutr_df.index[1] > 0

\* ------------------------------------------------------------------- C9
ValidBoxcoxInput ==
  /\ Len(nutr_df.data) > 0
  /\ \A r \in 1..Len(nutr_df.data) : \A c \in Range(nutr_df.columns) :
        nutr_df.data[r][c] # NaN /\ nutr_df.data[r][c] > 0

\* C9: a step that raises changes no notebook variable and completes no
\* cell, and no step follows it; a failed read leaves df unbound; a failed
\* Box-Cox cell leaves nutr_df_TF with the columns before the failing one
\* and nothing for it or after it; and the decomposition exists only for a
\* file that was read and a table Box-Cox accepted.
C9_ErrorsPropagate ==
  /\ [][ /\ error = "none"
         /\ error' # "none" => UNCHANGED << nbvars, pc, col, executed, out >> ]_vars
  /\ [](Aborted /\ Cell = "read_csv" =>
          /\ csv.status # "ok"
          /\ \A v \in { df, desc_df, nutr_df, nutr_df_TF, fit, pca, pca_df } :
                ~IsBound(v))
  /\ [](Aborted /\ Cell = "boxcox" =>
          /\ ~ValidBoxcoxInput
          /\ nutr_df_TF.columns =
                [j \in 1..col - 1 |-> TF(nutr_df.columns[j])]
          /\ boxcox_error(column_values(nutr_df, nutr_df.columns[col])) # "none"
          /\ ~IsBound(fit) /\ ~IsBound(pca) /\ ~IsBound(pca_df))
  /\ [](Done("read_csv") => csv.status = "ok")
  /\ [](Done("boxcox") => ValidBoxcoxInput)
  /\ [](IsBound(pca) => (csv.status = "ok" /\ ValidBoxcoxInput))

C9_Witness ==
  /\ Aborted /\ error = "ValueError" /\ Cell = "boxcox"
  /\ Len(nutr_df_TF.columns) >= 1
  /\ IsBound(desc_df)

\* ------------------------------------------------------------------ C10
\* The notebook variables each cell assigns.
Writes(cell) ==
  CASE cell \in { "read_csv", "ex_dropna" } -> { "df" }
    [] cell = "desc_df" -> { "desc_df" }
    [] cell \in { "nutr_df", "drop_desc", "ex_set_index", "drop_corr", "shift" }
         -> { "nutr_df" }
    [] cell \in { "boxcox", "scale" } -> { "nutr_df_TF" }
    [] cell = "pca" -> { "fit", "pca" }
    [] cell \in { "pca_df", "join" } -> { "pca_df" }
    [] cell = "vects" -> { "vects" }
    [] cell = "c1" -> { "c1" }
    [] cell = "c2" -> { "c2" }
    [] OTHER -> { }

\* The notebook variables a step changes.
Changed ==
  (IF df' # df THEN { "df" } ELSE { })
  \cup (IF desc_df' # desc_df THEN { "desc_df" } ELSE { })
  \cup (IF nutr_df' # nutr_df THEN { "nutr_df" } ELSE { })
  \cup (IF nutr_df_TF' # nutr_df_TF THEN { "nutr_df_TF" } ELSE { })
  \cup (IF fit' # fit THEN { "fit" } ELSE { })
  \cup (IF pca' # pca THEN { "pca" } ELSE { })
  \cup (IF pca_df' # pca_df THEN { "pca_df" } ELSE { })
  \cup (IF vects' # vects THEN { "vects" } ELSE { })
  \cup (IF c1' # c1 THEN { "c1" } ELSE { })
  \cup (IF c2' # c2 THEN { "c2" } ELSE { })

ComponentCols == { c \in Range(ComponentNames) : c \in Range(pca_df.columns) }
Varies(c) ==
  \E r, t \in 1..Len(pca_df.data) : pca_df.data[r][c] # pca_df.data[t][c]

CorrShown == out.kind = "display" /\ out.cell = "corr"

TFNames(k) == [j \in 1..k |-> TF(nutr_df.columns[j])]
LoopEnded == Done("boxcox") \/ (Aborted /\ Cell = "boxcox")

\* C12 as stated: whenever the Box-Cox loop has ended, it has visited every
\* column: nutr_df_TF has one '_TF' column per column of nutr_df, in order.
C12_EveryColumnTransformed ==
  (LoopEnded /\ nutr_df_TF.kind = "DataFrame") =>
     nutr_df_TF.columns = TFNames(Len(nutr_df.columns))

\* C12 (amended): each pass of the loop takes the next column of nutr_df,
\* in order, and either raises or appends exactly its '_TF' column, holding
\* boxcox of that column's values, leaving the earlier columns and the index
\* alone; the loop always ends, by completing after the last column or by
\* raising at a column; when it completes, nutr_df_TF has exactly one
\* '_TF' column per column of nutr_df, in the same order, on the same index;
\* the scaled array and every row of fit.components_ then have one entry
\* per column of nutr_df in that order; and c1 and c2 label loading j with
\* column j of nutr_df, the column whose transformed values are feature j.
C12_LoopAndLabels ==
  /\ [][ (Cell = "boxcox" /\ col >= 1 /\ error' = "none") =>
           /\ col' = IF col = Len(nutr_df.columns) THEN 0 ELSE col + 1
           /\ nutr_df' = nutr_df
           /\ nutr_df_TF'.columns =
                 Append(nutr_df_TF.columns, TF(nutr_df.columns[col]))
           /\ nutr_df_TF'.index = nutr_df_TF.index
           /\ \A r \in 1..Len(nutr_df.data) :
                 /\ nutr_df_TF'.data[r][TF(nutr_df.columns[col])] =
                       boxcox_value(nutr_df.data[r][nutr_df.columns[col]])
                 /\ \A c \in Range(nutr_df_TF.columns) :
                       nutr_df_TF'.data[r][c] = nutr_df_TF.data[r][c] ]_vars
  /\ []((Cell = "boxcox" /\ col >= 1) =>
          nutr_df_TF.columns = TFNames(col - 1))
  /\ []((Done("boxcox") /\ nutr_df_TF.kind = "DataFrame") =>
          /\ nutr_df_TF.columns = TFNames(Len(nutr_df.columns))
          /\ Cardinality(Range(nutr_df_TF.columns)) = Len(nutr_df.columns)
          /\ nutr_df_TF.index = nutr_df.index
          /\ Len(nutr_df_TF.data) = Len(nutr_df.data))
  /\ [](Done("scale") =>
          /\ nutr_df_TF.ncols = Len(nutr_df.columns)
          /\ \A r \in 1..Len(nutr_df.data) : \A j \in 1..Len(nutr_df.columns) :
                nutr_df_TF.data[r][j] =
                   scaled_value(boxcox_value(nutr_df.data[r][nutr_df.columns[j]])))
  /\ [](IsBound(fit) =>
          \A k \in 1..fit.n_components :
             /\ Len(fit.components[k]) = Len(nutr_df.columns)
             /\ \A j \in 1..Len(nutr_df.columns) :
                   fit.components[k][j] = loading(k, j))
  /\ [](IsBound(c1) =>
          /\ c1.index = nutr_df.columns
          /\ \A j \in 1..Len(nutr_df.columns) : c1.values[j] = loading(1, j))
  /\ [](IsBound(c2) =>
          /\ c2.index = nutr_df.columns
          /\ \A j \in 1..Len(nutr_df.columns) : c2.values[j] = loading(2, j))
  /\ ((Cell = "boxcox" /\ error = "none") ~> LoopEnded)

C12_Witness ==
  /\ IsBound(c2) /\ Len(c2.values) = 43
  /\ c2.index[4] = "Lipid_Tot_(g)"
  /\ Len(nutr_df.data) = MaxRows

====
